---- MODULE Spec2Model ----
(***************************************************************************)
(* Notification dispatch and scheduling engine of dheem04/snds:            *)
(*   - the BullMQ worker (backend/src/worker, enhanced version),           *)
(*   - the cron scheduler (promotion sweep, campaign completion sweep),    *)
(*   - the routes that feed them (send, cancel, campaign start).           *)
(* Every `await` of a handler is a point where other handlers may run, so  *)
(* a handler is split into one action per read / write it awaits, except   *)
(* where the intermediate state cannot be observed by any other handler.   *)
(***************************************************************************)
EXTENDS Integers, Sequences, FiniteSets, TLC

\* ------------------------------------------------------------------ bounds
NumCampaigns == 1
MaxRecipients == 2
MaxDirect == 1
NumScheduled == 2
MaxSweeps == 2
MaxTime == 1
NumLinked == 1
NumTicks == 1
MaxJobs == 2
NumStored == 1
MaxAge == 2

\* ------------------------------------------------------- program constants
Attempts == 3
Concurrency == 5
RetentionDays == 30

Channels == {"email", "sms", "in-app"}
ChannelInputs == Channels \cup {"fax"}
NoCampaign == 0
NoSched == 0
NoSendAt == -1

VARIABLES
  campaigns,   \* NotificationCampaign rows: id -> record
  scheduled,   \* ScheduledNotification rows: id -> record
  jobs,        \* the 'notifications' queue: job id -> record (data, opts, state)
  logs,        \* NotificationLog rows, grouped by the job whose attempt wrote them
  now,         \* wall clock
  start,       \* POST /:id/start request in progress, per campaign
  promo,       \* promotion sweep ticks in progress
  cancel,      \* DELETE /scheduled/:id request in progress, per record
  comp,        \* campaign completion sweep in progress
  ops          \* pause / update / delete request in progress, per campaign

vars == <<campaigns, scheduled, jobs, logs, now, start, promo, cancel, comp, ops>>

CampaignIds == 1..NumCampaigns
JobIds == 1..Len(jobs)
SchedIds == 1..Len(scheduled)

\* ------------------------------------------------------------------ queue

\* notificationQueue.add('send', data, opts): a new job in state waiting.
\* delivered: how many times a channel sender has sent the job's message.
NewJob(channel, campaignId, sched, attempts) ==
  [channel |-> channel, campaignId |-> campaignId, sched |-> sched,
   attempts |-> attempts, attemptsMade |-> 0, state |-> "waiting",
   delivered |-> 0]

\* BullMQ runs a job while attemptsMade < opts.attempts; a job added without
\* opts.attempts (attempts 0) is run once.
AttemptLimit(job) == IF job.attempts > 1 THEN job.attempts ELSE 1

\* MoveToFailed with the retry test off by one: one attempt too many.
MoveToFailedOffByOne(job) ==
  [job EXCEPT !.attemptsMade = @ + 1,
              !.state = IF job.attemptsMade + 1 <= AttemptLimit(job)
                        THEN "waiting" ELSE "failed"]

\* MoveToFailed that puts the job back without counting the attempt.
MoveToFailedUncounted(job) == [job EXCEPT !.state = "waiting"]

\* BullMQ on a processor that threw: the attempt is counted, and the job is
\* retried (after its backoff delay) while attempts are left, else failed.
MoveToFailed(job) ==
  [job EXCEPT !.attemptsMade = @ + 1,
              !.state = IF job.attemptsMade + 1 < AttemptLimit(job)
                        THEN "waiting" ELSE "failed"]

\* BullMQ on a processor that returned.
MoveToCompleted(job) ==
  [job EXCEPT !.attemptsMade = @ + 1, !.state = "completed"]

ActiveJobs == {j \in JobIds : jobs[j].state = "active"}

\* ------------------------------------------------------------------ store

\* A campaign row that DELETE /:id has removed: findFirst finds nothing,
\* update { where id } throws, and an insert referring to it violates the
\* foreign key.
RowExists(c) == campaigns[c].status # "deleted"

\* ----------------------------------------------------------------- worker

\* try block, lines 35-45: the channel sender is called for a known channel
\* and may throw; any other channel throws 'Unknown channel'.
Delivered(channel, sendOk) == channel \in Channels /\ sendOk

\* The channel sender returned: the message is out.
Sent(job, delivered) ==
  [job EXCEPT !.delivered = IF delivered THEN @ + 1 ELSE @]

\* lines 53-60 and 69-76: prisma ... update { increment: 1 } (atomic in the store)
CampaignIncrement(c, status) ==
  IF status = "success"
  THEN [c EXCEPT !.successCount = @ + 1]
  ELSE [c EXCEPT !.failureCount = @ + 1]

\* LogEntry numbering the attempts from 0 (job.attemptsMade without the + 1).
LogEntryZeroBased(job, status) ==
  [status |-> status, attempt |-> job.attemptsMade]

\* finally block, lines 82-97: one NotificationLog row per attempt.
LogEntry(job, status) ==
  [status |-> status, attempt |-> job.attemptsMade + 1]

\* The worker takes a waiting job (at most `concurrency` at a time); the queue
\* locks it, so it is handed to one worker only.
Dequeue(j) ==
  /\ jobs[j].state = "waiting"
  /\ Cardinality(ActiveJobs) < Concurrency
  /\ jobs' = [jobs EXCEPT ![j].state = "active"]
  /\ UNCHANGED <<campaigns, scheduled, logs, now, start, promo, cancel, comp, ops>>

\* One run of the processor on job j (one attempt), and what BullMQ does with
\* its result. sendOk: whether the channel sender returned or threw.
\* When the job's campaign row is gone, the counter update throws (after a
\* delivery the catch block takes over with status failed, and its own update
\* throws out of it), and the log row, which refers to the campaign, is
\* refused by the store inside the guarded create of the finally block.
Process(j, sendOk) ==
  LET job == jobs[j]
      delivered == Delivered(job.channel, sendOk)
      linked == job.campaignId # NoCampaign
      missing == linked /\ ~RowExists(job.campaignId)
      status == IF delivered /\ ~missing THEN "success" ELSE "failed"
  IN /\ job.state = "active"
     /\ campaigns' =
          IF linked /\ ~missing
          THEN [campaigns EXCEPT ![job.campaignId] = CampaignIncrement(@, status)]
          ELSE campaigns
     /\ logs' = IF missing THEN logs
                ELSE [logs EXCEPT ![j] = Append(@, LogEntry(job, status))]
     /\ jobs' = [jobs EXCEPT ![j] = IF status = "success"
                                    THEN MoveToCompleted(Sent(@, delivered))
                                    ELSE MoveToFailed(Sent(@, delivered))]
     /\ UNCHANGED <<scheduled, now, start, promo, cancel, comp, ops>>

\* The same run when the store refuses the log row: the create of lines 82-97
\* is inside its own try/catch (81-100), which only reports the error.
ProcessLogFails(j, sendOk) ==
  LET job == jobs[j]
      delivered == Delivered(job.channel, sendOk)
      linked == job.campaignId # NoCampaign
      status == IF delivered THEN "success" ELSE "failed"
  IN /\ job.state = "active"
     /\ ~(linked /\ ~RowExists(job.campaignId))
     /\ campaigns' =
          IF linked
          THEN [campaigns EXCEPT ![job.campaignId] = CampaignIncrement(@, status)]
          ELSE campaigns
     /\ jobs' = [jobs EXCEPT ![j] = IF status = "success"
                                    THEN MoveToCompleted(Sent(@, delivered))
                                    ELSE MoveToFailed(Sent(@, delivered))]
     /\ UNCHANGED <<scheduled, logs, now, start, promo, cancel, comp, ops>>

\* A run in which the sender has sent the message and the successCount update
\* of lines 53-60, still inside the try block, throws: the catch block of
\* lines 62-78 sets status failed, tries the failureCount update (catchOk:
\* the store takes it) and rethrows; the finally block logs the attempt as
\* failed and BullMQ counts a failed attempt.
ProcessCounterFails(j, catchOk) ==
  LET job == jobs[j]
  IN /\ job.state = "active"
     /\ job.campaignId # NoCampaign
     /\ RowExists(job.campaignId)
     /\ Delivered(job.channel, TRUE)
     /\ campaigns' =
          IF catchOk
          THEN [campaigns EXCEPT ![job.campaignId] = CampaignIncrement(@, "failed")]
          ELSE campaigns
     /\ logs' = [logs EXCEPT ![j] = Append(@, LogEntry(job, "failed"))]
     /\ jobs' = [jobs EXCEPT ![j] = MoveToFailed(Sent(@, TRUE))]
     /\ UNCHANGED <<scheduled, now, start, promo, cancel, comp, ops>>

\* worker/notificationWorker.ts, the worker `npm run start:worker` runs: no
\* campaign counters, no attempt number in the log row (the column defaults
\* to 1), and the log create of the finally block (lines 33-43) is not
\* guarded: when it throws, the processor throws, whatever the sender did.
LegacyLogEntry(status) == [status |-> status, attempt |-> 1]

LegacyProcess(j, sendOk, logOk) ==
  LET job == jobs[j]
      delivered == Delivered(job.channel, sendOk)
      status == IF delivered THEN "success" ELSE "failed"
  IN /\ job.state = "active"
     /\ logs' = IF logOk THEN [logs EXCEPT ![j] = Append(@, LegacyLogEntry(status))]
                ELSE logs
     /\ jobs' = [jobs EXCEPT ![j] = IF delivered /\ logOk
                                    THEN MoveToCompleted(Sent(@, delivered))
                                    ELSE MoveToFailed(Sent(@, delivered))]
     /\ UNCHANGED <<campaigns, scheduled, now, start, promo, cancel, comp, ops>>

\* ----------------------------------------------------------------- routes

DirectJobs == {j \in JobIds : jobs[j].campaignId = NoCampaign /\ jobs[j].sched = NoSched}

\* A producer adds a job with the 3-attempt policy (POST /notify without
\* sendAt, and any other client of the queue). The worker's input is the job
\* payload as found in the queue, so the channel ranges over ChannelInputs.
SendNow(channel) ==
  /\ Cardinality(DirectJobs) < MaxDirect
  /\ jobs' = Append(jobs, NewJob(channel, NoCampaign, NoSched, Attempts))
  /\ logs' = Append(logs, <<>>)
  /\ UNCHANGED <<campaigns, scheduled, now, start, promo, cancel, comp, ops>>

\* POST /notify, lines 65-108: `if (sendAt)` stores a ScheduledNotification
\* (status pending by default) for any sendAt the body has, whatever its date;
\* without sendAt the job is enqueued at once.
Submit(channel, sendAt) ==
  IF sendAt # NoSendAt
  THEN /\ Len(scheduled) < NumScheduled
       /\ scheduled' = Append(scheduled, [status |-> "pending", sendAt |-> sendAt,
                                           campaignId |-> NoCampaign,
                                           channel |-> channel])
       /\ cancel' = Append(cancel, "idle")
       /\ UNCHANGED <<campaigns, jobs, logs, now, start, promo, comp, ops>>
  ELSE /\ Cardinality(DirectJobs) < MaxDirect
       /\ jobs' = Append(jobs, NewJob(channel, NoCampaign, NoSched, Attempts))
       /\ logs' = Append(logs, <<>>)
       /\ UNCHANGED <<campaigns, scheduled, now, start, promo, cancel, comp, ops>>

\* POST /test-queue: a job added without a retry policy.
TestQueue ==
  /\ Cardinality(DirectJobs) < MaxDirect
  /\ jobs' = Append(jobs, NewJob("email", NoCampaign, NoSched, 0))
  /\ logs' = Append(logs, <<>>)
  /\ UNCHANGED <<campaigns, scheduled, now, start, promo, cancel, comp, ops>>

\* StartRead without the test on the template.
StartReadNoTemplate(c) ==
  /\ start[c].pc = "idle"
  /\ campaigns[c].status \in {"draft", "scheduled"}
  /\ start' = [start EXCEPT ![c] = [pc |-> "checked", todo |-> campaigns[c].recipients]]
  /\ UNCHANGED <<campaigns, scheduled, jobs, logs, now, promo, cancel, comp, ops>>

\* POST /:id/start, lines 239-257: read the campaign and validate it.
StartRead(c) ==
  /\ start[c].pc = "idle"
  /\ campaigns[c].status \in {"draft", "scheduled"}
  /\ campaigns[c].hasTemplate
  /\ start' = [start EXCEPT ![c] = [pc |-> "checked", todo |-> campaigns[c].recipients]]
  /\ UNCHANGED <<campaigns, scheduled, jobs, logs, now, promo, cancel, comp, ops>>

\* lines 260-266: status running, startedAt stamped. On a row that is gone
\* the update throws and the request ends in the catch of lines 299-302.
StartWrite(c) ==
  /\ start[c].pc = "checked"
  /\ campaigns' = IF RowExists(c)
                  THEN [campaigns EXCEPT ![c].status = "running",
                                         ![c].startedAt = TRUE]
                  ELSE campaigns
  /\ start' = [start EXCEPT ![c] = IF RowExists(c) THEN [@ EXCEPT !.pc = "fanout"]
                                                    ELSE [pc |-> "idle", todo |-> 0]]
  /\ UNCHANGED <<scheduled, jobs, logs, now, promo, cancel, comp, ops>>

\* lines 273-293: one job per recipient, each awaited in turn.
StartEnqueue(c) ==
  /\ start[c].pc = "fanout"
  /\ start[c].todo > 0
  /\ jobs' = Append(jobs, NewJob(campaigns[c].channel, c, NoSched, Attempts))
  /\ logs' = Append(logs, <<>>)
  /\ start' = [start EXCEPT ![c] =
                 IF start[c].todo = 1 THEN [pc |-> "idle", todo |-> 0]
                 ELSE [pc |-> "fanout", todo |-> start[c].todo - 1]]
  /\ UNCHANGED <<campaigns, scheduled, now, promo, cancel, comp, ops>>

\* The fan-out when notificationQueue.add throws: the catch of lines 299-302
\* answers 500 and nothing is undone.
StartEnqueueFails(c) ==
  /\ start[c].pc = "fanout"
  /\ start' = [start EXCEPT ![c] = [pc |-> "idle", todo |-> 0]]
  /\ UNCHANGED <<campaigns, scheduled, jobs, logs, now, promo, cancel, comp, ops>>

\* POST /:id/pause, lines 311-323: read the campaign; only a running campaign
\* passes.
PauseRead(c) ==
  /\ ops[c].pause = "idle"
  /\ campaigns[c].status = "running"
  /\ ops' = [ops EXCEPT ![c].pause = "checked"]
  /\ UNCHANGED <<campaigns, scheduled, jobs, logs, now, start, promo, cancel, comp>>

\* lines 325-328: update { where id } data { status paused }.
PauseWrite(c) ==
  /\ ops[c].pause = "checked"
  /\ campaigns' = IF RowExists(c) THEN [campaigns EXCEPT ![c].status = "paused"]
                  ELSE campaigns
  /\ ops' = [ops EXCEPT ![c].pause = "idle"]
  /\ UNCHANGED <<scheduled, jobs, logs, now, start, promo, cancel, comp>>

\* PUT /:id, lines 176-189: read the campaign; only draft or scheduled passes.
UpdateRead(c) ==
  /\ ops[c].update = "idle"
  /\ campaigns[c].status \in {"draft", "scheduled"}
  /\ ops' = [ops EXCEPT ![c].update = "checked"]
  /\ UNCHANGED <<campaigns, scheduled, jobs, logs, now, start, promo, cancel, comp>>

\* The data of the update, lines 205-216. recipients: the length of the new
\* recipient list, 0 when the body has none; reschedule: the body has a
\* scheduledAt (a date, by its validator), which also sets status scheduled.
UpdateData(c, recipients, reschedule) ==
  [c EXCEPT !.recipients = IF recipients > 0 THEN recipients ELSE @,
            !.totalRecipients = IF recipients > 0 THEN recipients ELSE @,
            !.status = IF reschedule THEN "scheduled" ELSE @]

\* lines 203-220: update { where id } with that data.
UpdateWrite(c, recipients, reschedule) ==
  /\ ops[c].update = "checked"
  /\ campaigns' = IF RowExists(c)
                  THEN [campaigns EXCEPT ![c] = UpdateData(@, recipients, reschedule)]
                  ELSE campaigns
  /\ ops' = [ops EXCEPT ![c].update = "idle"]
  /\ UNCHANGED <<scheduled, jobs, logs, now, start, promo, cancel, comp>>

\* DELETE /:id, lines 394-407: read the campaign; only a draft passes.
DeleteRead(c) ==
  /\ ops[c].delete = "idle"
  /\ campaigns[c].status = "draft"
  /\ ops' = [ops EXCEPT ![c].delete = "checked"]
  /\ UNCHANGED <<campaigns, scheduled, jobs, logs, now, start, promo, cancel, comp>>

\* lines 409-411: delete { where id }.
DeleteWrite(c) ==
  /\ ops[c].delete = "checked"
  /\ campaigns' = [campaigns EXCEPT ![c].status = "deleted"]
  /\ ops' = [ops EXCEPT ![c].delete = "idle"]
  /\ UNCHANGED <<scheduled, jobs, logs, now, start, promo, cancel, comp>>

\* -------------------------------------------------------------- scheduler

\* prisma.scheduledNotification.findMany { sendAt <= now, status pending },
\* as the list of ids from i upwards.
RECURSIVE DueFrom(_)
DueFrom(i) ==
  IF i > Len(scheduled) THEN <<>>
  ELSE IF scheduled[i].status = "pending" /\ scheduled[i].sendAt <= now
       THEN <<i>> \o DueFrom(i + 1)
       ELSE DueFrom(i + 1)

DueNotifications == DueFrom(1)

\* Time passes.
Tick ==
  /\ now < MaxTime
  /\ now' = now + 1
  /\ UNCHANGED <<campaigns, scheduled, jobs, logs, start, promo, cancel, comp, ops>>

\* The sweep between two runs.
SweepIdle == [pc |-> "idle", due |-> <<>>, read |-> <<>>]

\* A tick of the every-minute cron task, lines 13-31: read the due records.
\* node-cron fires the task whether or not an earlier run has returned.
\* read: the array dueNotifications; due: what the loop has still to visit.
PromoRead(s) ==
  /\ promo[s].pc = "idle"
  /\ DueNotifications # <<>>
  /\ promo' = [promo EXCEPT ![s] = [pc |-> "loop", due |-> DueNotifications,
                                      read |-> DueNotifications]]
  /\ UNCHANGED <<campaigns, scheduled, jobs, logs, now, start, cancel, comp, ops>>

\* lines 62-65: update { where id } data { status queued }, whatever the
\* record's status is by now.
MarkQueued(n) == [scheduled EXCEPT ![n].status = "queued"]

\* One pass of the loop body, lines 37-68: enqueue the job, mark the record.
PromoStep(s) ==
  LET n == Head(promo[s].due)
      rest == Tail(promo[s].due)
  IN /\ promo[s].pc = "loop"
     /\ jobs' = Append(jobs, NewJob(scheduled[n].channel, scheduled[n].campaignId,
                                    n, Attempts))
     /\ logs' = Append(logs, <<>>)
     /\ scheduled' = MarkQueued(n)
     /\ promo' = [promo EXCEPT ![s] =
                    IF rest = <<>> THEN SweepIdle ELSE [@ EXCEPT !.due = rest]]
     /\ UNCHANGED <<campaigns, now, start, cancel, comp, ops>>

\* The catch block of the loop body without its update.
MarkFailedSkipped(n) == scheduled

\* lines 71-76: update { where id } data { status failed }.
MarkFailed(n) == [scheduled EXCEPT ![n].status = "failed"]

\* The loop body when notificationQueue.add throws: the catch block of lines
\* 69-77 marks the record and the loop goes on.
PromoEnqueueFails(s) ==
  LET n == Head(promo[s].due)
      rest == Tail(promo[s].due)
  IN /\ promo[s].pc = "loop"
     /\ scheduled' = MarkFailed(n)
     /\ promo' = [promo EXCEPT ![s] =
                    IF rest = <<>> THEN SweepIdle ELSE [@ EXCEPT !.due = rest]]
     /\ UNCHANGED <<campaigns, jobs, logs, now, start, cancel, comp, ops>>

\* The loop body when the store throws: the update of the catch block throws
\* in its turn, entered from a failed add or (added) from a failed update to
\* queued after the job was enqueued; the error reaches the catch of lines
\* 79-81, which only reports it, and the run is over.
PromoStoreFails(s, added) ==
  LET n == Head(promo[s].due)
  IN /\ promo[s].pc = "loop"
     /\ jobs' = IF added
                THEN Append(jobs, NewJob(scheduled[n].channel,
                                         scheduled[n].campaignId, n, Attempts))
                ELSE jobs
     /\ logs' = IF added THEN Append(logs, <<>>) ELSE logs
     /\ promo' = [promo EXCEPT ![s].pc = "caught"]
     /\ UNCHANGED <<campaigns, scheduled, now, start, cancel, comp, ops>>

\* The loop body when the job is enqueued and the update to queued of lines
\* 62-65 throws: the same catch block marks the record failed, and the loop
\* goes on.
PromoQueuedWriteFails(s) ==
  LET n == Head(promo[s].due)
      rest == Tail(promo[s].due)
  IN /\ promo[s].pc = "loop"
     /\ jobs' = Append(jobs, NewJob(scheduled[n].channel, scheduled[n].campaignId,
                                    n, Attempts))
     /\ logs' = Append(logs, <<>>)
     /\ scheduled' = MarkFailed(n)
     /\ promo' = [promo EXCEPT ![s] =
                    IF rest = <<>> THEN SweepIdle ELSE [@ EXCEPT !.due = rest]]
     /\ UNCHANGED <<campaigns, now, start, cancel, comp, ops>>

\* The task returns from its catch; cron fires it again at the next tick.
PromoReturn(s) ==
  /\ promo[s].pc = "caught"
  /\ promo' = [promo EXCEPT ![s] = SweepIdle]
  /\ UNCHANGED <<campaigns, scheduled, jobs, logs, now, start, cancel, comp, ops>>

\* DELETE /scheduled/:id, lines 281-288: findFirst { id, status pending };
\* a record that is not pending answers 404.
CancelFound(n) == scheduled[n].status = "pending"

CancelRead(n) ==
  /\ cancel[n] # "found"
  /\ cancel' = [cancel EXCEPT ![n] = IF CancelFound(n) THEN "found" ELSE "rejected"]
  /\ UNCHANGED <<campaigns, scheduled, jobs, logs, now, start, promo, comp, ops>>

\* lines 290-295: update { where id } data { status cancelled }.
CancelWrite(n) ==
  /\ cancel[n] = "found"
  /\ scheduled' = [scheduled EXCEPT ![n].status = "cancelled"]
  /\ cancel' = [cancel EXCEPT ![n] = "ok"]
  /\ UNCHANGED <<campaigns, jobs, logs, now, start, promo, comp, ops>>

\* _count.scheduledNotifications where status in (pending, queued)
PendingCount(c) ==
  Cardinality({n \in SchedIds : /\ scheduled[n].campaignId = c
                                /\ scheduled[n].status \in {"pending", "queued"}})

Snapshot(c) ==
  [id |-> c, pendingCount |-> PendingCount(c),
   successCount |-> campaigns[c].successCount,
   failureCount |-> campaigns[c].failureCount,
   totalRecipients |-> campaigns[c].totalRecipients]

\* findMany { status running } with the counts, lines 87-99.
RECURSIVE RunningFrom(_)
RunningFrom(c) ==
  IF c > NumCampaigns THEN <<>>
  ELSE IF campaigns[c].status = "running"
       THEN <<Snapshot(c)>> \o RunningFrom(c + 1)
       ELSE RunningFrom(c + 1)

RunningCampaigns == RunningFrom(1)

\* CompletionDue without the test on outstanding scheduled notifications.
CompletionDueIgnoringPending(campaign) ==
  campaign.successCount + campaign.failureCount >= campaign.totalRecipients

\* line 106, on the values the sweep read.
CompletionDue(campaign) ==
  /\ campaign.pendingCount = 0
  /\ campaign.successCount + campaign.failureCount >= campaign.totalRecipients

\* A tick of the every-5-minutes cron task: read the running campaigns.
CompRead ==
  /\ comp.pc = "idle"
  /\ RunningCampaigns # <<>>
  /\ comp' = [pc |-> "loop", snap |-> RunningCampaigns]
  /\ UNCHANGED <<campaigns, scheduled, jobs, logs, now, start, promo, cancel, ops>>

\* One pass of the loop body, lines 101-117. On a row that is gone the update
\* throws and the catch of lines 118-120 ends the sweep.
CompStep ==
  LET campaign == Head(comp.snap)
      rest == Tail(comp.snap)
      write == CompletionDue(campaign)
      thrown == write /\ ~RowExists(campaign.id)
  IN /\ comp.pc = "loop"
     /\ campaigns' =
          IF write /\ ~thrown
          THEN [campaigns EXCEPT ![campaign.id].status = "completed",
                                 ![campaign.id].completedAt = TRUE]
          ELSE campaigns
     /\ comp' = IF rest = <<>> \/ thrown THEN [pc |-> "idle", snap |-> <<>>]
                ELSE [pc |-> "loop", snap |-> rest]
     /\ UNCHANGED <<scheduled, jobs, logs, now, start, promo, cancel, ops>>

\* ---------------------------------------------------------- initial state

\* A campaign as POST /campaigns creates it (lines 125-136).
NewCampaign(status, hasTemplate, recipients) ==
  [status |-> status, hasTemplate |-> hasTemplate, channel |-> "email",
   recipients |-> recipients, totalRecipients |-> recipients,
   successCount |-> 0, failureCount |-> 0,
   startedAt |-> FALSE, completedAt |-> FALSE]

CreatedCampaigns ==
  {NewCampaign(st, t, r) : st \in {"draft", "scheduled"}, t \in BOOLEAN,
                           r \in 1..MaxRecipients}

\* A ScheduledNotification row: status defaults to pending (schema line 70).
NewScheduled(sendAt, campaignId) ==
  [status |-> "pending", sendAt |-> sendAt, campaignId |-> campaignId,
   channel |-> "email"]

InitRequests(sweeps) ==
  /\ jobs = <<>>
  /\ logs = <<>>
  /\ now = 0
  /\ start = [c \in CampaignIds |-> [pc |-> "idle", todo |-> 0]]
  /\ promo = [s \in 1..sweeps |-> SweepIdle]
  /\ comp = [pc |-> "idle", snap |-> <<>>]
  /\ ops = [c \in CampaignIds |->
             [pause |-> "idle", update |-> "idle", delete |-> "idle"]]

\* Worker with its producers: campaigns not yet started, nothing scheduled.
InitWorker ==
  /\ InitRequests(MaxSweeps)
  /\ campaigns \in [CampaignIds -> CreatedCampaigns]
  /\ scheduled = <<>>
  /\ cancel = <<>>

NextWorker ==
  \/ \E ch \in ChannelInputs : SendNow(ch)
  \/ TestQueue
  \/ \E c \in CampaignIds : StartRead(c) \/ StartWrite(c) \/ StartEnqueue(c)
  \/ \E j \in JobIds : Dequeue(j)
  \/ \E j \in JobIds, ok \in BOOLEAN : Process(j, ok)

SpecWorker == InitWorker /\ [][NextWorker]_vars

\* ------------------------------------------------------------ C1 .. C5

CampaignJobs(c) == {j \in JobIds : jobs[j].campaignId = c}

\* C1: for every campaign, in every reachable state,
\* successCount + failureCount <= totalRecipients.
C1_CountersWithinTotal ==
  \A c \in CampaignIds :
    campaigns[c].successCount + campaigns[c].failureCount
      <= campaigns[c].totalRecipients

\* C2: a campaign's counters count its jobs' terminal outcomes and nothing
\* else: successCount is the number of its jobs that completed, failureCount
\* the number of its jobs that failed for good; an attempt that will be
\* retried changes no counter.
C2_CountersCountTerminalJobs ==
  \A c \in CampaignIds :
    /\ campaigns[c].successCount =
         Cardinality({j \in CampaignJobs(c) : jobs[j].state = "completed"})
    /\ campaigns[c].failureCount =
         Cardinality({j \in CampaignJobs(c) : jobs[j].state = "failed"})

FailedEntries(j, n) ==
  \A i \in 1..n : logs[j][i] = [status |-> "failed", attempt |-> i]

C5_UnknownChannelNoRetry ==
  \A j \in JobIds :
    jobs[j].channel \notin Channels =>
      /\ Len(logs[j]) <= 1
      /\ Len(logs[j]) = 1 =>
           /\ logs[j][1] = [status |-> "failed", attempt |-> 1]
           /\ jobs[j].state = "failed"

\* -------------------------------------------------- scheduled notifications

\* Scheduled notifications as POST /notify with sendAt creates them (no
\* campaign reference), promotion sweep ticks that may overlap, and the cancel
\* route. The worker never reads or writes these rows (see Process), so the
\* jobs enqueued here are left in the queue.
InitSched ==
  /\ InitRequests(MaxSweeps)
  /\ campaigns = [c \in CampaignIds |-> NewCampaign("draft", FALSE, 1)]
  /\ scheduled \in [1..NumScheduled -> {NewScheduled(t, NoCampaign) : t \in 0..MaxTime}]
  /\ cancel = [n \in 1..NumScheduled |-> "idle"]

NextSched ==
  \/ Tick
  \/ \E s \in DOMAIN promo : PromoRead(s) \/ PromoStep(s)
  \/ \E n \in SchedIds : CancelRead(n) \/ CancelWrite(n)

SpecSched == InitSched /\ [][NextSched]_vars

JobsOf(n) == {j \in JobIds : jobs[j].sched = n}

InSeq(x, seq) == \E i \in 1..Len(seq) : seq[i] = x

\* C6: a promotion sweep picks up every record that is pending with
\* sendAt <= now and moves each record it enqueues to queued, and no record
\* ever has more than one job enqueued for it.
C6_PromotedOnceByNextSweep ==
  [][/\ \A s \in DOMAIN promo :
          (promo[s].pc = "idle" /\ promo'[s].pc = "loop") =>
            \A n \in SchedIds :
              (scheduled[n].status = "pending" /\ scheduled[n].sendAt <= now)
                => InSeq(n, promo'[s].due)
     /\ \A n \in SchedIds :
          (JobsOf(n)' # JobsOf(n)) => scheduled'[n].status = "queued"
     /\ \A n \in SchedIds : Cardinality(JobsOf(n)') <= 1
    ]_vars

\* C7: a cancel that found the record pending leaves it cancelled with no job
\* enqueued for it, then or later, whatever the promotion sweep does in
\* between; a cancel never changes the status of a record that is queued.
C7_CancelPendingNeverEnqueued ==
  [][\A n \in SchedIds :
       /\ (cancel[n] = "found" /\ cancel'[n] = "ok") =>
            (scheduled'[n].status = "cancelled" /\ JobsOf(n)' = {})
       /\ scheduled[n].status = "cancelled" =>
            (scheduled'[n].status = "cancelled" /\ JobsOf(n)' = {})
       /\ (scheduled[n].status = "queued" /\ cancel'[n] # cancel[n]) =>
            scheduled'[n].status = "queued"
    ]_vars

AllowedTransitions ==
  {<<"pending", "queued">>, <<"queued", "sent">>, <<"queued", "failed">>,
   <<"pending", "cancelled">>}

\* C8: every change of a Scheduled Notification's status is one of
\* pending -> queued, queued -> sent, queued -> failed, pending -> cancelled.
C8_StatusTransitions ==
  [][\A n \in SchedIds :
       scheduled'[n].status # scheduled[n].status =>
         <<scheduled[n].status, scheduled'[n].status>> \in AllowedTransitions
    ]_vars

\* ------------------------------------------------------------- campaigns

\* The whole engine around a campaign: start and its fan-out, the worker, the
\* completion sweep, and Scheduled Notification rows that may carry the
\* campaign's id (schema.prisma line 68; the promotion sweep copies it into
\* the job, the completion sweep counts the rows), with their promotion and
\* cancellation.
Init ==
  /\ InitRequests(NumTicks)
  /\ campaigns \in [CampaignIds -> CreatedCampaigns]
  /\ scheduled \in [1..NumLinked ->
                      {NewScheduled(t, c) : t \in 0..MaxTime,
                                            c \in {NoCampaign} \cup CampaignIds}]
  /\ cancel = [n \in 1..NumLinked |-> "idle"]

Next ==
  \/ \E c \in CampaignIds : StartRead(c) \/ StartWrite(c) \/ StartEnqueue(c)
  \/ \E j \in JobIds : Dequeue(j)
  \/ \E j \in JobIds, ok \in BOOLEAN : Process(j, ok)
  \/ Tick
  \/ \E s \in DOMAIN promo : PromoRead(s) \/ PromoStep(s)
  \/ \E n \in SchedIds : CancelRead(n) \/ CancelWrite(n)
  \/ CompRead
  \/ CompStep

Spec == Init /\ [][Next]_vars

\* ----------------------------------------------------------- C9, C10

Completes(c) ==
  campaigns[c].status # "completed" /\ campaigns'[c].status = "completed"

\* C9: the completion sweep reads every running campaign with its counts as
\* they are at the sweep; it sets a campaign it read to completed if and only
\* if that campaign then had no Scheduled Notification in pending or queued
\* and successCount + failureCount >= totalRecipients; no campaign read with
\* a pending or queued recipient is set to completed, and nothing else sets a
\* campaign to completed.
C9_CompletionIffDue ==
  [][/\ (comp.pc = "idle" /\ comp'.pc = "loop") =>
          /\ \A c \in CampaignIds :
               campaigns[c].status = "running" =>
                 \E i \in 1..Len(comp'.snap) : comp'.snap[i].id = c
          /\ \A i \in 1..Len(comp'.snap) :
               LET h == comp'.snap[i] IN
               /\ campaigns[h.id].status = "running"
               /\ h.pendingCount = PendingCount(h.id)
               /\ h.successCount = campaigns[h.id].successCount
               /\ h.failureCount = campaigns[h.id].failureCount
               /\ h.totalRecipients = campaigns[h.id].totalRecipients
     /\ \A c \in CampaignIds :
          Completes(c) =>
            /\ comp.pc = "loop"
            /\ Head(comp.snap).id = c
            /\ Head(comp.snap).pendingCount = 0
            /\ Head(comp.snap).successCount + Head(comp.snap).failureCount
                 >= Head(comp.snap).totalRecipients
     /\ (comp.pc = "loop" /\ comp' # comp) =>
          LET h == Head(comp.snap) IN
          (/\ h.pendingCount = 0
           /\ h.successCount + h.failureCount >= h.totalRecipients)
            => campaigns'[h.id].status = "completed"
    ]_vars

\* A completed campaign that has a Scheduled Notification of its own, which
\* is no longer pending or queued.
C9_Witness ==
  \E c \in CampaignIds :
    /\ campaigns[c].status = "completed"
    /\ campaigns[c].completedAt
    /\ \E n \in SchedIds : scheduled[n].campaignId = c

\* C10: a completed campaign has successCount + failureCount = totalRecipients
\* and no Scheduled Notification in pending or queued.
C10_CompletedMeansAllDone ==
  \A c \in CampaignIds :
    campaigns[c].status = "completed" =>
      /\ campaigns[c].successCount + campaigns[c].failureCount
           = campaigns[c].totalRecipients
      /\ PendingCount(c) = 0

\* ------------------------------------------------------ campaign requests

\* A campaign with its start, pause, worker and completion sweep.
InitCampaign ==
  /\ InitRequests(NumTicks)
  /\ campaigns \in [CampaignIds -> CreatedCampaigns]
  /\ scheduled = <<>>
  /\ cancel = <<>>

NextCampaign ==
  \/ \E c \in CampaignIds : StartRead(c) \/ StartWrite(c) \/ StartEnqueue(c)
  \/ \E c \in CampaignIds : PauseRead(c) \/ PauseWrite(c)
  \/ \E j \in JobIds : Dequeue(j)
  \/ \E j \in JobIds, ok \in BOOLEAN : Process(j, ok)
  \/ CompRead
  \/ CompStep

SpecCampaign == InitCampaign /\ [][NextCampaign]_vars

\* The same with the update and delete requests. A start is let in while the
\* queue has room for its fan-out.
NextOps ==
  \/ \E c \in CampaignIds :
        (Len(jobs) + campaigns[c].recipients <= MaxJobs /\ StartRead(c))
          \/ StartWrite(c) \/ StartEnqueue(c)
  \/ \E c \in CampaignIds : PauseRead(c) \/ PauseWrite(c)
  \/ \E c \in CampaignIds : UpdateRead(c) \/ DeleteRead(c) \/ DeleteWrite(c)
  \/ \E c \in CampaignIds, r \in 0..MaxRecipients, b \in BOOLEAN :
        UpdateWrite(c, r, b)
  \/ \E j \in JobIds : Dequeue(j)
  \/ \E j \in JobIds, ok \in BOOLEAN : Process(j, ok)
  \/ CompRead
  \/ CompStep

SpecOps == InitCampaign /\ [][NextOps]_vars

\* C11: a campaign enters completed only through the completion sweep, from
\* running and not yet stamped (so the write with its completedAt stamp happens
\* once); a step that leaves the sweep where it is (the worker, a request)
\* never writes completed; and no step changes the status of a completed
\* campaign.
C11_CompletedOnceAndTerminal ==
  [][\A c \in CampaignIds :
       /\ campaigns[c].status = "completed" => campaigns'[c].status = "completed"
       /\ Completes(c) =>
            /\ comp.pc = "loop"
            /\ comp' # comp
            /\ Head(comp.snap).id = c
            /\ campaigns[c].status = "running"
            /\ ~campaigns[c].completedAt
    ]_vars

Terminal(j) == jobs[j].state \in {"completed", "failed"}

\* C12: once a started campaign's fan-out is done and each of its n jobs has
\* reached a terminal outcome, s of them completed and f failed for good, the
\* campaign has successCount = s and failureCount = f (and it is with these
\* counts that the completion sweep finds and completes it).
C12_CountsWhenAllTerminal ==
  \A c \in CampaignIds :
    (/\ campaigns[c].startedAt
     /\ start[c].pc = "idle"
     /\ Cardinality(CampaignJobs(c)) = campaigns[c].totalRecipients
     /\ \A j \in CampaignJobs(c) : Terminal(j))
      => /\ campaigns[c].successCount =
              Cardinality({j \in CampaignJobs(c) : jobs[j].state = "completed"})
         /\ campaigns[c].failureCount =
              Cardinality({j \in CampaignJobs(c) : jobs[j].state = "failed"})

\* ------------------------------------------------------------- submission

\* The submit route with the clock and the promotion sweep.
InitSubmit ==
  /\ InitRequests(NumTicks)
  /\ campaigns = [c \in CampaignIds |-> NewCampaign("draft", FALSE, 1)]
  /\ scheduled = <<>>
  /\ cancel = <<>>

NextSubmit ==
  \/ \E ch \in Channels, t \in {NoSendAt} \cup (0..MaxTime + 1) : Submit(ch, t)
  \/ Tick
  \/ \E s \in DOMAIN promo : PromoRead(s) \/ PromoStep(s)

SpecSubmit == InitSubmit /\ [][NextSubmit]_vars

\* C13: a submission creates a Scheduled Notification only for a sendAt that
\* is not in the past (one with a past or absent sendAt enqueues its job at
\* once instead), and the submission that creates one creates exactly one,
\* pending, and enqueues nothing.
C13_ScheduledOnlyForFuture ==
  [][Len(scheduled') # Len(scheduled) =>
       /\ Len(scheduled') = Len(scheduled) + 1
       /\ scheduled'[Len(scheduled')].status = "pending"
       /\ scheduled'[Len(scheduled')].sendAt >= now
       /\ jobs' = jobs
    ]_vars

\* -------------------------------------------------------- log write faults

\* The two workers of the repository, each on jobs of the queue, with a store
\* that may refuse a log row.
NextLogFault ==
  \/ \E ch \in ChannelInputs : SendNow(ch)
  \/ TestQueue
  \/ \E j \in JobIds : Dequeue(j)
  \/ \E j \in JobIds, ok \in BOOLEAN : Process(j, ok) \/ ProcessLogFails(j, ok)
  \/ \E j \in JobIds, ok \in BOOLEAN, logOk \in BOOLEAN : LegacyProcess(j, ok, logOk)

SpecLogFault == InitWorker /\ [][NextLogFault]_vars

\* C14: whether or not the log rows get written, a message that was sent is
\* sent once and its job is completed (never waiting for, running or failing
\* another attempt), and a job none of whose attempts sent the message is
\* retried up to its attempt limit and failed for good exactly there.
C14_LogFailureKeepsOutcome ==
  \A j \in JobIds :
    /\ jobs[j].delivered <= 1
    /\ jobs[j].delivered = 1 => jobs[j].state = "completed"
    /\ jobs[j].delivered = 0 =>
         /\ jobs[j].state # "completed"
         /\ jobs[j].attemptsMade <= AttemptLimit(jobs[j])
         /\ (jobs[j].state = "failed") = (jobs[j].attemptsMade = AttemptLimit(jobs[j]))

\* ---------------------------------------------------------------- retention

\* Rows as the store holds them, with their creation day and any status the
\* schema names (schema.prisma lines 45 and 70).
StoredLog(status, createdAt) ==
  [status |-> status, attempt |-> 1, createdAt |-> createdAt]

StoredScheduled(status, createdAt) ==
  [status |-> status, sendAt |-> createdAt, campaignId |-> NoCampaign,
   channel |-> "email", createdAt |-> createdAt]

LogStatuses == {"success", "failed", "pending"}
ScheduledStatuses == {"pending", "queued", "sent", "failed", "cancelled"}

\* lines 126-127: thirtyDaysAgo, with the clock counting days.
ThirtyDaysAgo == now - RetentionDays

\* ExpiredScheduled without the test on the status.
ExpiredScheduledAnyStatus(row) == row.createdAt < ThirtyDaysAgo

\* lines 130-135: where { createdAt < thirtyDaysAgo, status in success, failed }
ExpiredLog(row) ==
  row.createdAt < ThirtyDaysAgo /\ row.status \in {"success", "failed"}

\* lines 138-143: where { createdAt < thirtyDaysAgo,
\*                        status in sent, failed, cancelled }
ExpiredScheduled(row) ==
  row.createdAt < ThirtyDaysAgo /\ row.status \in {"sent", "failed", "cancelled"}

\* A row that deleteMany has removed keeps its place, marked.
Removed(row) == [row EXCEPT !.status = "deleted"]

\* The daily cron task, lines 124-149: the two deleteMany.
RetentionSweep ==
  /\ logs' = [j \in DOMAIN logs |->
                [i \in DOMAIN logs[j] |->
                   IF ExpiredLog(logs[j][i]) THEN Removed(logs[j][i])
                   ELSE logs[j][i]]]
  /\ scheduled' = [n \in DOMAIN scheduled |->
                     IF ExpiredScheduled(scheduled[n]) THEN Removed(scheduled[n])
                     ELSE scheduled[n]]
  /\ UNCHANGED <<campaigns, jobs, now, start, promo, cancel, comp, ops>>

\* A day passes.
NextDay ==
  /\ now < RetentionDays + MaxAge + 1
  /\ now' = now + 1
  /\ UNCHANGED <<campaigns, scheduled, jobs, logs, start, promo, cancel, comp, ops>>

\* A store that has been in use for the length of the window: rows of every
\* status, created on the first days; the log rows are those of one job.
InitRetention ==
  /\ campaigns = [c \in CampaignIds |-> NewCampaign("draft", FALSE, 1)]
  /\ scheduled \in [1..NumStored ->
                      {StoredScheduled(st, t) : st \in ScheduledStatuses,
                                                t \in 0..MaxAge}]
  /\ cancel = [n \in 1..NumStored |-> "idle"]
  /\ jobs = <<>>
  /\ logs \in {<<l>> : l \in [1..NumStored ->
                                 {StoredLog(st, t) : st \in LogStatuses,
                                                     t \in 0..MaxAge}]}
  /\ now = RetentionDays
  /\ start = [c \in CampaignIds |-> [pc |-> "idle", todo |-> 0]]
  /\ promo = [s \in 1..NumTicks |-> SweepIdle]
  /\ comp = [pc |-> "idle", snap |-> <<>>]
  /\ ops = [c \in CampaignIds |->
             [pause |-> "idle", update |-> "idle", delete |-> "idle"]]

NextRetention ==
  \/ RetentionSweep
  \/ NextDay

SpecRetention == InitRetention /\ [][NextRetention]_vars

\* C15: the retention sweep removes a Delivery Log Entry only if it is older
\* than 30 days and has status success or failed, and a Scheduled
\* Notification only if it is older than 30 days and has status sent, failed
\* or cancelled; it changes no row otherwise, so a pending log entry, a
\* pending or queued Scheduled Notification and any row younger than the
\* window are never removed.
C15_RetentionDeletesOnlyOldTerminal ==
  [][/\ \A n \in DOMAIN scheduled :
          scheduled'[n] # scheduled[n] =>
            /\ scheduled'[n] = Removed(scheduled[n])
            /\ scheduled[n].createdAt + RetentionDays < now
            /\ scheduled[n].status \in {"sent", "failed", "cancelled"}
     /\ \A j \in DOMAIN logs : \A i \in DOMAIN logs[j] :
          logs'[j][i] # logs[j][i] =>
            /\ logs'[j][i] = Removed(logs[j][i])
            /\ logs[j][i].createdAt + RetentionDays < now
            /\ logs[j][i].status \in {"success", "failed"}
    ]_vars

\* A Scheduled Notification has been removed while a log entry as old as it,
\* but pending, is still there.
C15_Witness ==
  \E n \in DOMAIN scheduled : \E j \in DOMAIN logs : \E i \in DOMAIN logs[j] :
    /\ scheduled[n].status = "deleted"
    /\ logs[j][i].status = "pending"
    /\ logs[j][i].createdAt <= scheduled[n].createdAt

\* ------------------------------------------------------------ sweep faults

\* The promotion sweep over a queue that may refuse a job.
NextQueueFault ==
  \/ NextSched
  \/ \E s \in DOMAIN promo : PromoEnqueueFails(s)

SpecQueueFault == InitSched /\ [][NextQueueFault]_vars

InitStoreFault ==
  /\ InitRequests(NumTicks)
  /\ campaigns = [c \in CampaignIds |-> NewCampaign("draft", FALSE, 1)]
  /\ scheduled \in [1..NumScheduled -> {NewScheduled(t, NoCampaign) : t \in 0..MaxTime}]
  /\ cancel = [n \in 1..NumScheduled |-> "idle"]

NextStoreFault ==
  \/ Tick
  \/ \E s \in DOMAIN promo : PromoRead(s) \/ PromoStep(s) \/ PromoEnqueueFails(s)
  \/ \E s \in DOMAIN promo : PromoStoreFails(s, FALSE) \/ PromoReturn(s)
  \/ \E s \in DOMAIN promo : Len(jobs) < MaxJobs + 1 /\ PromoStoreFails(s, TRUE)
  \/ \E s \in DOMAIN promo : PromoQueuedWriteFails(s)

SpecStoreFault == InitStoreFault /\ [][NextStoreFault]_vars

\* C17: when a sweep ends in its catch, every record it had read is as it was
\* when the sweep started (pending), and the sweep can run again.
C17_FailedSweepChangesNothing ==
  [][\A s \in DOMAIN promo :
       (promo[s].pc = "loop" /\ promo'[s].pc = "caught") =>
         \A i \in 1..Len(promo[s].read) :
           scheduled'[promo[s].read[i]].status = "pending"
    ]_vars

\* ------------------------------------------------------------------ start

C19_NoEnqueueWhilePaused ==
  [][\A c \in CampaignIds :
       /\ (ops[c].pause = "idle" /\ ops'[c].pause # "idle") =>
            campaigns[c].status = "running"
       /\ campaigns[c].status = "paused" => CampaignJobs(c)' = CampaignJobs(c)
    ]_vars

\* C20: a campaign row is removed only while the campaign is a draft, with
\* no job of it in the queue.
C20_DeletedOnlyWhileDraft ==
  [][\A c \in CampaignIds :
       (RowExists(c) /\ ~RowExists(c)') =>
         /\ campaigns[c].status = "draft"
         /\ CampaignJobs(c) = {}
    ]_vars

\* ------------------------------------------------------- outstanding work

Outstanding(j) == jobs[j].state \in {"waiting", "active"}

\* C21: a running campaign has a job that is queued, being processed or
\* awaiting a retry, or a Scheduled Notification in pending or queued, or
\* (its start still being at work) recipients not yet fanned out.
C21_RunningHasOutstandingWork ==
  \A c \in CampaignIds :
    campaigns[c].status = "running" =>
      \/ start[c].pc = "fanout"
      \/ \E j \in CampaignJobs(c) : Outstanding(j)
      \/ PendingCount(c) > 0

\* ------------------------------------------------------------ start faults

\* The campaign with a queue that may refuse a job of the fan-out.
NextStartFault ==
  \/ NextCampaign
  \/ \E c \in CampaignIds : StartEnqueueFails(c)

SpecStartFault == InitCampaign /\ [][NextStartFault]_vars

\* The same, with the worker taking and running the jobs it is given and cron
\* firing the completion sweep.
SpecStartFaultFair ==
  /\ SpecStartFault
  /\ WF_vars(\E j \in JobIds : Dequeue(j))
  /\ WF_vars(\E j \in JobIds, ok \in BOOLEAN : Process(j, ok))
  /\ WF_vars(CompRead)
  /\ WF_vars(CompStep)

\* C22: a running campaign whose start is over and whose jobs have all
\* reached a terminal outcome is eventually completed.
C22_EventuallyCompleted ==
  \A c \in CampaignIds :
    (/\ campaigns[c].status = "running"
     /\ start[c].pc = "idle"
     /\ \A j \in CampaignJobs(c) : Terminal(j))
      ~> (campaigns[c].status = "completed")

\* C28: a start that ends without having enqueued its last job (it answered
\* an error) leaves the campaign not running, startedAt not stamped and no
\* job of the campaign in the queue.
C28_StartAllOrNothing ==
  [][\A c \in CampaignIds :
       (/\ start[c].pc = "fanout"
        /\ start'[c].pc = "idle"
        /\ CampaignJobs(c)' = CampaignJobs(c)) =>
         /\ campaigns'[c].status # "running"
         /\ ~campaigns'[c].startedAt
         /\ CampaignJobs(c)' = {}
    ]_vars

\* ------------------------------------------- scheduled notification outcome

\* Scheduled notifications, the promotion sweep and the worker that runs the
\* jobs the sweep enqueues, with cron firing the sweep and the worker taking
\* and running the jobs it is given.
NextDelivery ==
  \/ Tick
  \/ \E s \in DOMAIN promo : PromoRead(s) \/ PromoStep(s)
  \/ \E j \in JobIds : Dequeue(j)
  \/ \E j \in JobIds, ok \in BOOLEAN : Process(j, ok)

SpecDelivery == InitStoreFault /\ [][NextDelivery]_vars

SpecDeliveryFair ==
  /\ SpecDelivery
  /\ WF_vars(Tick)
  /\ WF_vars(\E s \in DOMAIN promo : PromoRead(s) \/ PromoStep(s))
  /\ WF_vars(\E j \in JobIds : Dequeue(j))
  /\ WF_vars(\E j \in JobIds, ok \in BOOLEAN : Process(j, ok))

\* C23: a queued Scheduled Notification whose job has completed eventually
\* becomes sent, and one whose job has failed for good eventually becomes
\* failed.
C23_QueuedReachesOutcome ==
  \A n \in 1..NumScheduled :
    /\ (/\ scheduled[n].status = "queued"
         /\ \E j \in JobsOf(n) : jobs[j].state = "completed")
          ~> (scheduled[n].status = "sent")
    /\ (/\ scheduled[n].status = "queued"
         /\ \E j \in JobsOf(n) : jobs[j].state = "failed")
          ~> (scheduled[n].status = "failed")

\* ------------------------------------------------------- attempts in order

C25_NoOverlappingSweeps ==
  Cardinality({s \in DOMAIN promo : promo[s].pc # "idle"}) <= 1

\* ------------------------------------------------------- counter faults

\* The worker and its producers with a store that may refuse a counter
\* update.
NextCounterFault ==
  \/ NextWorker
  \/ \E j \in JobIds, b \in BOOLEAN : ProcessCounterFails(j, b)

SpecCounterFault == InitWorker /\ [][NextCounterFault]_vars

\* C26: an attempt that sends the job's message is the first to do so, is
\* logged as a success, completes the job, and leaves the failureCount of the
\* job's campaign as it was.
C26_DeliveredIsSuccess ==
  [][\A j \in JobIds :
       jobs'[j].delivered > jobs[j].delivered =>
         /\ jobs[j].delivered = 0
         /\ jobs'[j].state = "completed"
         /\ Len(logs'[j]) = Len(logs[j]) + 1
         /\ logs'[j][Len(logs'[j])].status = "success"
         /\ \A c \in CampaignIds :
              campaigns'[c].failureCount = campaigns[c].failureCount
    ]_vars

\* ------------------------------------------------- completion and its jobs

\* C27: the step that sets a campaign to completed finds every job of the
\* campaign in a terminal state, and no step changes the counters of a
\* completed campaign.
C27_NothingOutstandingAtCompletion ==
  [][\A c \in CampaignIds :
       /\ Completes(c) => \A j \in CampaignJobs(c) : Terminal(j)
       /\ campaigns[c].status = "completed" =>
            /\ campaigns'[c].successCount = campaigns[c].successCount
            /\ campaigns'[c].failureCount = campaigns[c].failureCount
    ]_vars

\* C29: a fan-out begins only on a campaign that was never started; no update
\* request changes the recipients, totalRecipients or status of a running
\* campaign; and a started campaign whose start is over has as many jobs as
\* its totalRecipients.
C29_OneFanOutNoUpdateWhileRunning ==
  [][\A c \in CampaignIds :
       /\ (start[c].pc = "checked" /\ start'[c].pc = "fanout") =>
            ~campaigns[c].startedAt
       /\ (campaigns[c].status = "running" /\ ops'[c].update # ops[c].update) =>
            /\ campaigns'[c].recipients = campaigns[c].recipients
            /\ campaigns'[c].totalRecipients = campaigns[c].totalRecipients
            /\ campaigns'[c].status = campaigns[c].status
       /\ (campaigns'[c].startedAt /\ start'[c].pc = "idle" /\ RowExists(c)') =>
            campaigns'[c].totalRecipients = Cardinality(CampaignJobs(c)')
    ]_vars

\* C30: a Scheduled Notification in status failed has no job in the queue.
C30_FailedHasNoJob ==
  \A n \in SchedIds : scheduled[n].status = "failed" => JobsOf(n) = {}

====
